---- MODULE Spec2Model ----
(***************************************************************************)
(* Budget-constrained recursive content-tree generator of                  *)
(* hypothesis_awkward.strategies.contents: contents(), its helper          *)
(* _st_content_lists() and the five wrapper builders.                      *)
(*                                                                         *)
(* A Content is a record with a "kind" field.  Every choice the code takes *)
(* from Hypothesis (draw(...)) is a nondeterministic choice of the model.  *)
(***************************************************************************)
EXTENDS Integers, Sequences, FiniteSets

VARIABLES
    opts,   \* keyword arguments of the top-level call
    pc,     \* "call" until the top-level strategy has returned or raised
    stack,  \* frames of the contents() calls in progress, innermost last
    ret     \* value returned by the call that finished last (None: none yet)

vars == <<opts, pc, stack, ret>>

(***************************************************************************)
(* Bounds of the model.                                                    *)
(***************************************************************************)
MaxSizeBound == 2       \* max_size of contents() ranges over 0..MaxSizeBound
MaxDepthBound == 2      \* max_depth of contents() ranges over 0..MaxDepthBound
MaxChildren == 2        \* cap on the children one _st_content_lists call draws
MaxLeafKinds == 1       \* leaf kinds enabled together
MaxWrapperKinds == 2    \* wrapper kinds enabled together
MaxWrapLen == 2         \* size and length of a wrapper built inside contents()
MaxContents == 2        \* max_contents of union_array_contents
MaxDefaultSize == 1     \* cut of the default max_size of contents()
MaxDefaultDepth == 1    \* cut of the default max_depth of contents()
MaxChildLen == 4        \* length of the child handed to a single-child builder
MaxArg == 3             \* max_size / max_zeros_length / max_length arguments
MaxPad == 128           \* empty variants leading a list given to union_array_contents
MaxTail == 2            \* variants following them
MaxFieldLen == 2        \* length of one child given to a multi-child builder
MaxUnionLen == 3        \* summed length of the variants given to union_array_contents
MaxNameLen == 1         \* longest field name the sampler draws
MaxFields == 2          \* children given to record_array_contents
MaxBudget == 3          \* max_size_total of CountdownDrawer ranges over 0..MaxBudget
MaxSizeEach == 2        \* min_size_each and max_size_each of CountdownDrawer
MaxDraws == 3           \* max_draws of CountdownDrawer ranges over 0..MaxDraws
MaxNones == 2           \* calls of the draw function made after it has returned None
MaxChains == 3          \* OptsChain objects a run creates
MaxRecorders == 2       \* RecordDraws objects a run registers
MaxRecorded == 2        \* values one recorder records in a run
MaxValue == 2           \* the drawn values and the values of kwargs are 1..MaxValue
MaxLayoutLen == 1       \* length of the leaves of a layout handed to arrays()
MaxLayoutDepth == 2     \* wrappers around a leaf of such a layout
MaxNestedSize == 1      \* max_size of the call of contents() made for nested unions
MaxNestedDepth == 3     \* max_depth of that call
MaxCount == 4           \* max_size of counted_numpy_array_contents
MaxCountedDraws == 3    \* arrays drawn from one counted strategy
MaxRaises == 2          \* draws attempted from it after the count is used up

(***************************************************************************)
(* Program constants.                                                      *)
(***************************************************************************)
MAX_LIST_LENGTH == 5
DEFAULT_MAX_SIZE == 5
DEFAULT_MAX_ZEROS_LENGTH == 5
NAME_MAX_SIZE == 3
INT8_BITS == 8
CONTENTS_MAX_SIZE == 10
CONTENTS_MAX_DEPTH == 5

\* The letters of string.ascii_letters the sampler uses for field names.
Letters == {"a"}

None == [kind |-> "None"]

Min(a, b) == IF a <= b THEN a ELSE b
Max(a, b) == IF a >= b THEN a ELSE b

\* Python's min() over a non-empty sequence of integers.
MinOf(s) == CHOOSE m \in {s[i] : i \in DOMAIN s} : \A i \in DOMAIN s : m <= s[i]

\* Python's sorted() on a list of integers (insertion sort).
RECURSIVE Insert(_, _)
Insert(x, s) ==
    IF s = <<>> THEN <<x>>
    ELSE IF x <= Head(s) THEN <<x>> \o s
    ELSE <<Head(s)>> \o Insert(x, Tail(s))

RECURSIVE Sorted(_)
Sorted(s) == IF s = <<>> THEN <<>> ELSE Insert(Head(s), Sorted(Tail(s)))

\* st.lists(st.integers(lo, hi), min_size=n, max_size=n)
IntLists(lo, hi, n) == [1..n -> lo..hi]

\* st.permutations(range(n)): position i of the result takes element p[i].
StPermutations(n) ==
    {p \in [1..n -> 1..n] : \A i, j \in 1..n : p[i] = p[j] => i = j}

(***************************************************************************)
(* Content nodes, with the attributes awkward's constructors derive.       *)
(***************************************************************************)
LeafKinds == {"NumpyArray", "EmptyArray", "string", "bytestring"}
WrapperKinds ==
    {"RegularArray", "ListOffsetArray", "ListArray", "RecordArray", "UnionArray"}

NumpyArray(n) == [kind |-> "NumpyArray", length |-> n]
EmptyArray == [kind |-> "EmptyArray", length |-> 0]
StringContent(n) == [kind |-> "string", length |-> n]
BytestringContent(n) == [kind |-> "bytestring", length |-> n]

IsContent(c) == c.kind \in LeafKinds \cup WrapperKinds

\* len(content)
ContentLen(c) ==
    CASE c.kind \in LeafKinds -> c.length
      [] c.kind = "RegularArray" -> c.length
      [] c.kind = "ListOffsetArray" -> Len(c.offsets) - 1
      [] c.kind = "ListArray" -> Len(c.starts)
      [] c.kind = "RecordArray" -> c.length
      [] c.kind = "UnionArray" -> Len(c.tags)

\* RegularArray(content, size, zeros_length)
RegularArray(content, size, zeros_length) ==
    [kind |-> "RegularArray", content |-> content, size |-> size,
     length |-> IF size = 0 THEN zeros_length ELSE ContentLen(content) \div size]

ListOffsetArray(offsets, content) ==
    [kind |-> "ListOffsetArray", offsets |-> offsets, content |-> content]

ListArray(starts, stops, content) ==
    [kind |-> "ListArray", starts |-> starts, stops |-> stops, content |-> content]

\* An optional integer: <<>> is Python's None, <<n>> the integer n.
NoInt == <<>>
Some(n) == <<n>>

\* RecordArray(contents, fields, length).  fields=None (a tuple) is is_tuple
\* with no field names; length=None lets the constructor take the shortest
\* child.
RecordArray(contents, is_tuple, fields, length) ==
    [kind |-> "RecordArray", contents |-> contents, is_tuple |-> is_tuple,
     fields |-> fields,
     length |-> IF length # NoInt THEN length[1]
                ELSE MinOf([i \in DOMAIN contents |-> ContentLen(contents[i])])]

UnionArray(tags, index, contents) ==
    [kind |-> "UnionArray", tags |-> tags, index |-> index, contents |-> contents]

\* An exception leaving the strategy.
Raised(e) == [kind |-> "Error", error |-> e]

(***************************************************************************)
(* regular_array_contents                                                  *)
(***************************************************************************)

\* Faulty variant: every size up to max_size is taken for a divisor.
DivisorsUnfiltered(content_len, max_size) ==
    1..(Min(content_len + 1, max_size + 1) - 1)

\* The divisors of content_len that fit max_size.
Divisors(content_len, max_size) ==
    {d \in 1..(Min(content_len + 1, max_size + 1) - 1) : content_len % d = 0}

\* Faulty variant: size 0 with a drawn zeros_length is offered for every
\* child, also when a divisor fits.
SizeAndZerosLengthOrZero(content_len, max_size, max_zeros_length) ==
    {<<0, z>> : z \in 0..max_zeros_length}
        \cup {<<s, 0>> : s \in IF content_len = 0 THEN 1..max_size
                               ELSE Divisors(content_len, max_size)}

\* The (size, zeros_length) pairs _size_and_zeros_length may draw.
SizeAndZerosLength(content_len, max_size, max_zeros_length) ==
    IF content_len = 0
    THEN {<<0, z>> : z \in 0..max_zeros_length} \cup {<<s, 0>> : s \in 1..max_size}
    ELSE IF Divisors(content_len, max_size) = {}
    THEN {<<0, z>> : z \in 0..max_zeros_length}
    ELSE {<<d, 0>> : d \in Divisors(content_len, max_size)}

\* The contents regular_array_contents may return for a child already drawn.
RegularArrayContents(content, max_size, max_zeros_length) ==
    {RegularArray(content, sz[1], sz[2]) :
        sz \in SizeAndZerosLength(ContentLen(content), max_size, max_zeros_length)}

(***************************************************************************)
(* list_offset_array_contents and list_array_contents                      *)
(***************************************************************************)

\* Faulty variant: the split points are used as drawn, unsorted.
SplitsUnsorted(content_len, n) == IntLists(0, content_len, n - 1)

\* sorted(draw(st.lists(st.integers(0, content_len), n - 1, n - 1)))
Splits(content_len, n) == {Sorted(s) : s \in IntLists(0, content_len, n - 1)}

\* Faulty variant: the length of the child is not put at the end.
OffsetsListOpenEnd(content_len, n) ==
    IF n = 0 THEN {<<0>>}
    ELSE IF content_len = 0 THEN {[i \in 1..(n + 1) |-> 0]}
    ELSE {<<0>> \o sp \o <<sp[Len(sp)]>> : sp \in Splits(content_len, n + 1)}

\* The offsets_list both list builders compute, for a list length n.
OffsetsList(content_len, n) ==
    IF n = 0 THEN {<<0>>}
    ELSE IF content_len = 0 THEN {[i \in 1..(n + 1) |-> 0]}
    ELSE {<<0>> \o sp \o <<content_len>> : sp \in Splits(content_len, n)}

\* n = draw(st.integers(min_value=0, max_value=MAX_LIST_LENGTH))
ListLengths == 0..MAX_LIST_LENGTH

ListOffsetArrayContents(content) ==
    {ListOffsetArray(offsets, content) :
        offsets \in UNION {OffsetsList(ContentLen(content), n) : n \in ListLengths}}


\* Faulty variant: starts and stops taken from the wrong ends of offsets.
ListArrayContentsSwapped(content) ==
    {ListArray(SubSeq(offsets, 2, Len(offsets)),
               SubSeq(offsets, 1, Len(offsets) - 1), content) :
        offsets \in UNION {OffsetsList(ContentLen(content), n) : n \in ListLengths}}

\* starts = offsets[:-1], stops = offsets[1:]
ListArrayContents(content) ==
    {ListArray(SubSeq(offsets, 1, Len(offsets) - 1),
               SubSeq(offsets, 2, Len(offsets)), content) :
        offsets \in UNION {OffsetsList(ContentLen(content), n) : n \in ListLengths}}

(***************************************************************************)
(* record_array_contents                                                   *)
(***************************************************************************)
\* st.text(alphabet=string.ascii_letters, max_size=3); a name is the
\* sequence of its letters.
StNames == UNION {[1..k -> Letters] : k \in 0..Min(NAME_MAX_SIZE, MaxNameLen)}

\* st.lists(st_names, min_size=n, max_size=n, unique=True)
FieldLists(n) == {f \in [1..n -> StNames] : \A i, j \in 1..n : f[i] = f[j] => i = j}


\* Faulty variant: max_length is used without the shortest child.
RecordLengthUnclamped(contents, max_length) ==
    IF contents = <<>> THEN Some(0)
    ELSE IF max_length # NoInt THEN Some(max_length[1])
    ELSE NoInt

\* The length record_array_contents hands to RecordArray.
RecordLength(contents, max_length) ==
    IF contents = <<>> THEN Some(0)
    ELSE IF max_length # NoInt
    THEN Some(Min(MinOf([i \in DOMAIN contents |-> ContentLen(contents[i])]),
                  max_length[1]))
    ELSE NoInt

RecordArrayContents(contents, allow_tuple, max_length) ==
    LET tuples == IF allow_tuple THEN BOOLEAN ELSE {FALSE}
    IN  UNION {
          IF is_tuple
          THEN {RecordArray(contents, TRUE, <<>>, RecordLength(contents, max_length))}
          ELSE {RecordArray(contents, FALSE, fields,
                            RecordLength(contents, max_length)) :
                    fields \in FieldLists(Len(contents))}
          : is_tuple \in tuples}

(***************************************************************************)
(* union_array_contents                                                    *)
(***************************************************************************)
\* The value numpy stores in an int8 array for the Python integer k, where
\* the conversion is not refused.
ToInt8(k) == ((k + 2 ^ (INT8_BITS - 1)) % (2 ^ INT8_BITS)) - 2 ^ (INT8_BITS - 1)

\* np.full(length, k, dtype=np.int8)
TagsPart(length, k) == [i \in 1..length |-> ToInt8(k)]

\* np.arange(length, dtype=np.int64)
IndexPart(length) == [i \in 1..length |-> i - 1]

\* The tags parts of contents lo .. hi joined in order; the range is halved
\* so that the evaluation stays shallow for long lists of contents.
RECURSIVE TagsParts(_, _, _)
TagsParts(contents, lo, hi) ==
    IF lo > hi THEN <<>>
    ELSE IF lo = hi THEN TagsPart(ContentLen(contents[lo]), lo - 1)
    ELSE TagsParts(contents, lo, (lo + hi) \div 2)
            \o TagsParts(contents, (lo + hi) \div 2 + 1, hi)

\* np.concatenate(tags_parts) over the first n contents (k = 0 .. n - 1).
TagsFlat(contents, n) == TagsParts(contents, 1, n)

RECURSIVE IndexParts(_, _, _)
IndexParts(contents, lo, hi) ==
    IF lo > hi THEN <<>>
    ELSE IF lo = hi THEN IndexPart(ContentLen(contents[lo]))
    ELSE IndexParts(contents, lo, (lo + hi) \div 2)
            \o IndexParts(contents, (lo + hi) \div 2 + 1, hi)

\* np.concatenate(index_parts) over the first n contents.
IndexFlat(contents, n) == IndexParts(contents, 1, n)

\* tags_flat[list(perm)]
Shuffled(flat, perm) == [i \in 1..Len(flat) |-> flat[perm[i]]]

\* The contents union_array_contents may return for a list of children.  A
\* tag that does not fit int8 is refused (OverflowError) or wraps around,
\* as the installed numpy decides.
UnionArrayContents(contents) ==
    LET tags_flat == TagsFlat(contents, Len(contents))
        index_flat == IndexFlat(contents, Len(contents))
    IN  (IF contents = <<>>
         THEN {UnionArray(<<>>, <<>>, contents)}
         ELSE {UnionArray(Shuffled(tags_flat, perm), Shuffled(index_flat, perm),
                          contents) : perm \in StPermutations(Len(tags_flat))})
        \cup (IF Len(contents) > 2 ^ (INT8_BITS - 1)
              THEN {Raised("OverflowError")} ELSE {})

(***************************************************************************)
(* The wrapper builders called on their own.  The child is given as a      *)
(* concrete Content or as a strategy; value is the Content given, or the   *)
(* one the strategy yields when drawn.                                     *)
(***************************************************************************)
ChildForms == {"Content", "SearchStrategy"}
ListForms == {"list", "SearchStrategy"}

Children == {EmptyArray} \cup {NumpyArray(n) : n \in 0..MaxChildLen}
Fields == {EmptyArray} \cup {NumpyArray(n) : n \in 1..MaxFieldLen}

\* Lists of at most n elements of S.
ListsUpTo(S, n) == UNION {[1..k -> S] : k \in 0..n}

RECURSIVE SumLen(_)
SumLen(contents) ==
    IF contents = <<>> THEN 0 ELSE ContentLen(Head(contents)) + SumLen(Tail(contents))

Done(v) ==
    /\ pc' = "done"
    /\ ret' = v
    /\ UNCHANGED <<opts, stack>>

InitRegular ==
    /\ opts \in [fn : {"regular_array_contents"},
                 content : [form : ChildForms, value : Children],
                 max_size : 0..MaxArg,
                 max_zeros_length : 0..MaxArg]
    /\ pc = "call"
    /\ stack = <<>>
    /\ ret = None

DrawRegularArray ==
    /\ pc = "call"
    /\ opts.fn = "regular_array_contents"
    /\ \E r \in RegularArrayContents(opts.content.value, opts.max_size,
                                     opts.max_zeros_length) : Done(r)

SpecRegular == InitRegular /\ [][DrawRegularArray]_vars

InitListOffset ==
    /\ opts \in [fn : {"list_offset_array_contents"},
                 content : [form : ChildForms, value : Children]]
    /\ pc = "call"
    /\ stack = <<>>
    /\ ret = None

\* content = draw(content): only a strategy can be drawn from.
DrawListOffsetArray ==
    /\ pc = "call"
    /\ opts.fn = "list_offset_array_contents"
    /\ IF opts.content.form = "SearchStrategy"
       THEN \E r \in ListOffsetArrayContents(opts.content.value) : Done(r)
       ELSE Done(Raised("InvalidArgument"))

SpecListOffset == InitListOffset /\ [][DrawListOffsetArray]_vars

InitList ==
    /\ opts \in [fn : {"list_array_contents"},
                 content : [form : ChildForms, value : Children]]
    /\ pc = "call"
    /\ stack = <<>>
    /\ ret = None

DrawListArray ==
    /\ pc = "call"
    /\ opts.fn = "list_array_contents"
    /\ IF opts.content.form = "SearchStrategy"
       THEN \E r \in ListArrayContents(opts.content.value) : Done(r)
       ELSE Done(Raised("InvalidArgument"))

SpecList == InitList /\ [][DrawListArray]_vars

InitRecord ==
    /\ opts \in [fn : {"record_array_contents"},
                 contents : [form : ListForms, value : ListsUpTo(Fields, MaxFields)],
                 allow_tuple : BOOLEAN,
                 max_length : {NoInt} \cup {Some(n) : n \in 0..MaxArg}]
    /\ pc = "call"
    /\ stack = <<>>
    /\ ret = None

DrawRecordArray ==
    /\ pc = "call"
    /\ opts.fn = "record_array_contents"
    /\ \E r \in RecordArrayContents(opts.contents.value, opts.allow_tuple,
                                    opts.max_length) : Done(r)

SpecRecord == InitRecord /\ [][DrawRecordArray]_vars

\* k empty variants followed by the variants of tail.
Padded(k, tail) == [i \in 1..k |-> EmptyArray] \o tail

InitUnion ==
    /\ opts \in [fn : {"union_array_contents"},
                 contents : [form : ListForms,
                             value : {Padded(k, tail) :
                                        k \in 0..MaxPad,
                                        tail \in {t \in ListsUpTo(Fields, MaxTail) :
                                                    SumLen(t) <= MaxUnionLen}}]]
    /\ pc = "call"
    /\ stack = <<>>
    /\ ret = None

DrawUnionArray ==
    /\ pc = "call"
    /\ opts.fn = "union_array_contents"
    /\ \E r \in UnionArrayContents(opts.contents.value) : Done(r)

SpecUnion == InitUnion /\ [][DrawUnionArray]_vars

(***************************************************************************)
(* leaf_contents                                                           *)
(***************************************************************************)
LeafAllowed(o) ==
    o.allow_numpy \/ o.allow_empty \/ o.allow_string \/ o.allow_bytestring

\* The leaves leaf_contents may draw with the leaf flags of o.
LeafContents(o, min_size, max_size) ==
    (IF o.allow_numpy THEN {NumpyArray(n) : n \in min_size..max_size} ELSE {})
    \cup (IF o.allow_empty /\ min_size = 0 THEN {EmptyArray} ELSE {})
    \cup (IF o.allow_string
          THEN {StringContent(n) : n \in min_size..max_size} ELSE {})
    \cup (IF o.allow_bytestring
          THEN {BytestringContent(n) : n \in min_size..max_size} ELSE {})

(***************************************************************************)
(* contents and _st_content_lists                                          *)
(***************************************************************************)
\* _leaf_size: the summed length of the leaves iter_leaf_contents yields.
RECURSIVE LeafSize(_)
RECURSIVE LeafSizeAll(_)
LeafSize(c) ==
    CASE c.kind \in LeafKinds -> c.length
      [] c.kind \in {"RegularArray", "ListOffsetArray", "ListArray"} ->
            LeafSize(c.content)
      [] c.kind \in {"RecordArray", "UnionArray"} -> LeafSizeAll(c.contents)
LeafSizeAll(cs) ==
    IF cs = <<>> THEN 0 ELSE LeafSize(Head(cs)) + LeafSizeAll(Tail(cs))

\* The keyword arguments of contents() that the model keeps.
LeafFlags == {"allow_numpy", "allow_empty", "allow_string", "allow_bytestring"}
WrapperFlags ==
    {"allow_regular", "allow_list_offset", "allow_list", "allow_record", "allow_union"}

Kwargs == [max_size : 0..MaxSizeBound, max_depth : 0..MaxDepthBound,
           allow_numpy : BOOLEAN, allow_empty : BOOLEAN, allow_string : BOOLEAN,
           allow_bytestring : BOOLEAN, allow_regular : BOOLEAN,
           allow_list_offset : BOOLEAN, allow_list : BOOLEAN,
           allow_record : BOOLEAN, allow_union : BOOLEAN,
           allow_union_root : BOOLEAN]

\* contents() with every argument left at its default.
DefaultKwargs ==
    [max_size |-> CONTENTS_MAX_SIZE, max_depth |-> CONTENTS_MAX_DEPTH,
     allow_numpy |-> TRUE, allow_empty |-> TRUE, allow_string |-> TRUE,
     allow_bytestring |-> TRUE, allow_regular |-> TRUE,
     allow_list_offset |-> TRUE, allow_list |-> TRUE, allow_record |-> TRUE,
     allow_union |-> TRUE, allow_union_root |-> TRUE]

\* One call of contents() with keyword arguments kw, in progress.
Frame(kw) ==
    [fn |-> "contents", kw |-> kw, pc |-> "start", node_type |-> "none",
     min_size |-> 0, remaining |-> 0, contents_ |-> <<>>]

Top == stack[Len(stack)]
Callers == SubSeq(stack, 1, Len(stack) - 1)

LeafOnly(kw) ==
    \/ ~(kw.allow_regular \/ kw.allow_list_offset \/ kw.allow_list
           \/ kw.allow_record \/ kw.allow_union)
    \/ kw.max_size = 0


\* Faulty variant: allow_union_root is not consulted.
CandidatesAnyRoot(kw) ==
    (IF kw.allow_regular THEN {"regular"} ELSE {})
    \cup (IF kw.allow_list_offset THEN {"list_offset"} ELSE {})
    \cup (IF kw.allow_list THEN {"list"} ELSE {})
    \cup (IF kw.allow_record THEN {"record"} ELSE {})
    \cup (IF kw.allow_union THEN {"union"} ELSE {})

\* Faulty variant: allow_record is not consulted.
CandidatesAlwaysRecord(kw) ==
    (IF kw.allow_regular THEN {"regular"} ELSE {})
    \cup (IF kw.allow_list_offset THEN {"list_offset"} ELSE {})
    \cup (IF kw.allow_list THEN {"list"} ELSE {})
    \cup {"record"}
    \cup (IF kw.allow_union /\ kw.allow_union_root THEN {"union"} ELSE {})

Candidates(kw) ==
    (IF kw.allow_regular THEN {"regular"} ELSE {})
    \cup (IF kw.allow_list_offset THEN {"list_offset"} ELSE {})
    \cup (IF kw.allow_list THEN {"list"} ELSE {})
    \cup (IF kw.allow_record THEN {"record"} ELSE {})
    \cup (IF kw.allow_union /\ kw.allow_union_root THEN {"union"} ELSE {})


\* Faulty variant: the depth budget is handed down undiminished.
RecurseKwargsSameDepth(kw) == [kw EXCEPT !.allow_union_root = TRUE]

\* Faulty variant: the depth budget is cut by two.
RecurseKwargsTwoLess(kw) ==
    [kw EXCEPT !.max_depth = kw.max_depth - 2, !.allow_union_root = TRUE]

\* Faulty variant: allow_union_root is handed down with the other flags.
RecurseKwargsKeepRoot(kw) == [kw EXCEPT !.max_depth = kw.max_depth - 1]

\* recurse = functools.partial(contents, ..., max_depth=max_depth - 1, ...):
\* the flags are handed down, allow_union_root is left at its default.
RecurseKwargs(kw) ==
    [kw EXCEPT !.max_depth = kw.max_depth - 1, !.allow_union_root = TRUE]


\* Faulty variant: the children of a union are drawn like those of a record.
StContentKwargsAnyRoot(kw, node_type) == RecurseKwargs(kw)

\* The st_content handed to _st_content_lists for a node type: recurse, or
\* functools.partial(recurse, allow_union_root=False) for a union.
StContentKwargs(kw, node_type) ==
    IF node_type = "union"
    THEN [RecurseKwargs(kw) EXCEPT !.allow_union_root = FALSE]
    ELSE RecurseKwargs(kw)

\* Faulty variant: a union is asked for one child only, as a record is.
MinSizeOne(node_type) == 1

\* min_size of the _st_content_lists call made for a node type.
MinSize(node_type) == IF node_type = "union" THEN 2 ELSE 1

\* max_size=max(remaining, 0)
ChildMaxSize(remaining) == Max(remaining, 0)

Return(v) ==
    /\ stack' = Callers
    /\ ret' = v
    /\ pc' = IF Len(stack) = 1 THEN "done" ELSE pc
    /\ UNCHANGED opts

Raise(e) ==
    /\ stack' = <<>>
    /\ ret' = e
    /\ pc' = "done"
    /\ UNCHANGED opts

ReturnOrRaise(r) == IF r.kind = "Error" THEN Raise(r) ELSE Return(r)

Call(f, callee) ==
    /\ stack' = Callers \o <<f, callee>>
    /\ ret' = None
    /\ UNCHANGED <<opts, pc>>

\* Faulty variant: without a leaf kind to draw from, an EmptyArray is handed
\* back in place of the error.
DrawLeafOrEmpty(kw) ==
    IF LeafAllowed(kw)
    THEN \E c \in LeafContents(kw, 0, kw.max_size) : Return(c)
    ELSE Return(EmptyArray)

\* draw(st_leaf(min_size=0, max_size=max_size))
DrawLeaf(kw) ==
    IF LeafAllowed(kw)
    THEN \E c \in LeafContents(kw, 0, kw.max_size) : Return(c)
    ELSE Raise(Raised("ValueError"))

AtStart == pc = "call" /\ stack # <<>> /\ Top.pc = "start"

\* if leaf_only: return draw(st_leaf(...))
ContentsLeafOnly ==
    /\ AtStart
    /\ LeafOnly(Top.kw)
    /\ DrawLeaf(Top.kw)

\* if max_depth <= 0 or not draw(st.booleans()): return draw(st_leaf(...))
ContentsStop ==
    /\ AtStart
    /\ ~LeafOnly(Top.kw)
    /\ \E coin \in BOOLEAN :
         /\ Top.kw.max_depth <= 0 \/ ~coin
         /\ DrawLeaf(Top.kw)

\* if not candidates: return draw(st_leaf(...))
ContentsNoCandidates ==
    /\ AtStart
    /\ ~LeafOnly(Top.kw)
    /\ Top.kw.max_depth > 0
    /\ Candidates(Top.kw) = {}
    /\ DrawLeaf(Top.kw)

\* node_type = draw(st.sampled_from(sorted(candidates))), single-child kinds:
\* child = draw(recurse(max_size=max_size))
ContentsDescend ==
    /\ AtStart
    /\ ~LeafOnly(Top.kw)
    /\ Top.kw.max_depth > 0
    /\ \E node_type \in Candidates(Top.kw) \cap {"regular", "list_offset", "list"} :
         Call([Top EXCEPT !.pc = "child", !.node_type = node_type],
              Frame([RecurseKwargs(Top.kw) EXCEPT !.max_size = Top.kw.max_size]))

\* The sizes the sampler is let to draw for a wrapper inside contents().
WithinBounds(r) ==
    CASE r.kind = "RegularArray" -> r.size <= MaxWrapLen /\ r.length <= MaxWrapLen
      [] r.kind \in {"ListOffsetArray", "ListArray"} -> ContentLen(r) <= MaxWrapLen
      [] OTHER -> TRUE

\* What a list builder makes of a child handed over as a concrete Content:
\* content = draw(content) is run on it as on a strategy, and fails.
DrawnFromContent(child) == {Raised("InvalidArgument")}

\* The child is drawn: the matching builder is called with it, a concrete
\* Content.
ContentsWrap ==
    /\ pc = "call" /\ stack # <<>> /\ Top.pc = "child" /\ ret # None
    /\ \E r \in
         CASE Top.node_type = "regular" ->
                RegularArrayContents(ret, DEFAULT_MAX_SIZE, DEFAULT_MAX_ZEROS_LENGTH)
           [] Top.node_type = "list_offset" -> DrawnFromContent(ret)
           [] Top.node_type = "list" -> DrawnFromContent(ret)
         : WithinBounds(r) /\ ReturnOrRaise(r)

\* node_type is 'union' or 'record': _st_content_lists starts with
\* remaining = max_total_size and no contents.
ContentsDescendList ==
    /\ AtStart
    /\ ~LeafOnly(Top.kw)
    /\ Top.kw.max_depth > 0
    /\ \E node_type \in Candidates(Top.kw) \cap {"record", "union"} :
         /\ stack' = Callers \o
                <<[Top EXCEPT !.pc = "list", !.node_type = node_type,
                              !.min_size = MinSize(node_type),
                              !.remaining = Top.kw.max_size, !.contents_ = <<>>]>>
         /\ UNCHANGED <<opts, pc, ret>>

InList == pc = "call" /\ stack # <<>> /\ Top.pc = "list"

\* c = draw(st_content(max_size=max(remaining, 0)))
DrawContent(f) ==
    Call(f, Frame([StContentKwargs(f.kw, f.node_type)
                      EXCEPT !.max_size = ChildMaxSize(f.remaining)]))

\* for _ in range(min_size): c = draw(st_content(...))
ListDrawMandatory ==
    /\ InList /\ ret = None
    /\ Len(Top.contents_) < Top.min_size
    /\ DrawContent(Top)

\* Faulty variant: the loop goes on whatever is left of the budget.
ContinueOnCoin(coin, remaining) == coin

\* The test of the while loop: draw(st.booleans()) and remaining > 0
Continue(coin, remaining) == coin /\ remaining > 0

\* while draw(st.booleans()) and remaining > 0: c = draw(st_content(...))
ListDrawOptional ==
    /\ InList /\ ret = None
    /\ Len(Top.contents_) >= Top.min_size
    /\ Len(Top.contents_) < MaxChildren
    /\ \E coin \in BOOLEAN :
         /\ Continue(coin, Top.remaining)
         /\ DrawContent(Top)


\* Faulty variant: a drawn child is not charged to the budget.
RemainingUncharged(remaining, c) == remaining

\* remaining -= _leaf_size(c)
Remaining(remaining, c) == remaining - LeafSize(c)

\* remaining -= _leaf_size(c); contents_.append(c)
ListAppend ==
    /\ InList /\ ret # None
    /\ stack' = Callers \o
           <<[Top EXCEPT !.remaining = Remaining(Top.remaining, ret),
                         !.contents_ = Append(Top.contents_, ret)]>>
    /\ ret' = None
    /\ UNCHANGED <<opts, pc>>

\* The while loop ends; the matching builder takes the children.
ListBuild ==
    /\ InList /\ ret = None
    /\ Len(Top.contents_) >= Top.min_size
    /\ \E coin \in BOOLEAN :
         /\ ~Continue(coin, Top.remaining)
         /\ \E r \in
              IF Top.node_type = "union"
              THEN UnionArrayContents(Top.contents_)
              ELSE RecordArrayContents(Top.contents_, TRUE, NoInt)
              : ReturnOrRaise(r)

(***************************************************************************)
(* union_array_contents(None): the builder draws its own children.         *)
(***************************************************************************)
\* st_ak.contents.contents(allow_union_root=False), the default budget and
\* depth cut to the bounds of the model.
UnionChildKwargs ==
    [DefaultKwargs EXCEPT !.allow_union_root = FALSE,
                          !.max_size = Min(CONTENTS_MAX_SIZE, MaxDefaultSize),
                          !.max_depth = Min(CONTENTS_MAX_DEPTH, MaxDefaultDepth)]

\* n = draw(st.integers(min_value=2, max_value=max_contents))
UnionDrawN ==
    /\ pc = "call" /\ stack # <<>> /\ Top.pc = "union_start"
    /\ \E n \in 2..opts.max_contents :
         /\ stack' = <<[Top EXCEPT !.pc = "union_children", !.n = n]>>
         /\ UNCHANGED <<opts, pc, ret>>

\* [draw(contents(allow_union_root=False)) for _ in range(n)], next element
UnionDrawChild ==
    /\ pc = "call" /\ stack # <<>> /\ Top.pc = "union_children" /\ ret = None
    /\ Len(Top.contents_) < Top.n
    /\ Call(Top, Frame(UnionChildKwargs))

UnionAppend ==
    /\ pc = "call" /\ stack # <<>> /\ Top.pc = "union_children" /\ ret # None
    /\ stack' = Callers \o <<[Top EXCEPT !.contents_ = Append(Top.contents_, ret)]>>
    /\ ret' = None
    /\ UNCHANGED <<opts, pc>>

UnionBuild ==
    /\ pc = "call" /\ stack # <<>> /\ Top.pc = "union_children" /\ ret = None
    /\ Len(Top.contents_) = Top.n
    /\ \E r \in UnionArrayContents(Top.contents_) : ReturnOrRaise(r)

(***************************************************************************)
(* The generator: contents() called with opts.kw, or                       *)
(* union_array_contents(None).                                             *)
(***************************************************************************)
Count(kw, names) == Cardinality({n \in names : kw[n]})

BoundedKwargs ==
    {kw \in Kwargs : /\ Count(kw, LeafFlags) <= MaxLeafKinds
                    /\ Count(kw, WrapperFlags) <= MaxWrapperKinds}

InitContents ==
    /\ opts \in {[fn |-> "contents", kw |-> kw] : kw \in BoundedKwargs}
    /\ pc = "call"
    /\ stack = <<Frame(opts.kw)>>
    /\ ret = None

InitUnionNone ==
    /\ opts \in [fn : {"union_array_contents"}, contents : {[form |-> "None"]},
                 max_contents : 2..MaxContents]
    /\ pc = "call"
    /\ stack = <<[fn |-> "union_array_contents", pc |-> "union_start", n |-> 0,
                  contents_ |-> <<>>]>>
    /\ ret = None

Init == InitContents \/ InitUnionNone

Next ==
    \/ ContentsLeafOnly
    \/ ContentsStop
    \/ ContentsNoCandidates
    \/ ContentsDescend
    \/ ContentsWrap
    \/ ContentsDescendList
    \/ ListDrawMandatory
    \/ ListDrawOptional
    \/ ListAppend
    \/ ListBuild
    \/ UnionDrawN
    \/ UnionDrawChild
    \/ UnionAppend
    \/ UnionBuild

Spec == Init /\ [][Next]_vars

(***************************************************************************)
(* Measures of a generated tree.                                           *)
(***************************************************************************)
\* iter_contents: every node of the layout, strings and bytestrings taken
\* as leaves.
RECURSIVE IterContents(_)
IterContents(c) ==
    {c} \cup
    (CASE c.kind \in LeafKinds -> {}
       [] c.kind \in {"RegularArray", "ListOffsetArray", "ListArray"} ->
             IterContents(c.content)
       [] c.kind \in {"RecordArray", "UnionArray"} ->
             UNION {IterContents(c.contents[i]) : i \in DOMAIN c.contents})

\* Nesting depth: each RegularArray, ListOffsetArray, ListArray, RecordArray
\* and UnionArray layer adds one level; a string or bytestring adds none.
RECURSIVE NestingDepth(_)
NestingDepth(c) ==
    CASE c.kind \in LeafKinds -> 0
      [] c.kind \in {"RegularArray", "ListOffsetArray", "ListArray"} ->
            1 + NestingDepth(c.content)
      [] c.kind \in {"RecordArray", "UnionArray"} ->
            1 + (IF c.contents = <<>> THEN 0
                 ELSE CHOOSE d \in {NestingDepth(c.contents[i]) : i \in DOMAIN c.contents} :
                        \A i \in DOMAIN c.contents : NestingDepth(c.contents[i]) <= d)

\* The allow_* flag that gates a kind of node.
FlagOf(kind) ==
    CASE kind = "NumpyArray" -> "allow_numpy"
      [] kind = "EmptyArray" -> "allow_empty"
      [] kind = "string" -> "allow_string"
      [] kind = "bytestring" -> "allow_bytestring"
      [] kind = "RegularArray" -> "allow_regular"
      [] kind = "ListOffsetArray" -> "allow_list_offset"
      [] kind = "ListArray" -> "allow_list"
      [] kind = "RecordArray" -> "allow_record"
      [] kind = "UnionArray" -> "allow_union"

\* The strategy fn has returned a Content.
Returned(fn) == pc = "done" /\ opts.fn = fn /\ IsContent(ret)

Unions(c) == {n \in IterContents(c) : n.kind = "UnionArray"}

(***************************************************************************)
(* Properties of contents().                                               *)
(***************************************************************************)
\* C1: the tree contents(max_size=B, ...) returns has total leaf length at
\* most B, records and unions included.
C1_BudgetRespected ==
    Returned("contents") => LeafSize(ret) <= opts.kw.max_size

\* A union whose variants each took a part of a budget of two or more, and
\* together all of it.
C1_Witness ==
    /\ Returned("contents")
    /\ ret.kind = "UnionArray"
    /\ opts.kw.max_size >= 2
    /\ LeafSize(ret) = opts.kw.max_size
    /\ \A i \in DOMAIN ret.contents : LeafSize(ret.contents[i]) >= 1

\* C2: the tree contents(max_depth=D, ...) returns has nesting depth at most
\* D, and no wrapper node at all when D <= 0.
C2_DepthRespected ==
    Returned("contents") =>
        /\ NestingDepth(ret) <= opts.kw.max_depth
        /\ opts.kw.max_depth <= 0 => ret.kind \in LeafKinds

\* A tree as deep as a depth limit of two or more lets it be.
C2_Witness ==
    /\ Returned("contents")
    /\ opts.kw.max_depth >= 2
    /\ NestingDepth(ret) = opts.kw.max_depth

\* C3: no node of a disabled leaf or wrapper kind appears at any level of
\* the tree contents() returns.
C3_DisabledKindsAbsent ==
    Returned("contents") =>
        \A n \in IterContents(ret) : opts.kw[FlagOf(n.kind)]

\* A tree two wrappers deep, drawn with a wrapper kind and a leaf kind
\* disabled.
C3_Witness ==
    /\ Returned("contents")
    /\ NestingDepth(ret) >= 2
    /\ \E k \in WrapperFlags : ~opts.kw[k]
    /\ \E k \in LeafFlags : ~opts.kw[k]
    /\ \E n \in IterContents(ret) : n # ret /\ n.kind \in WrapperKinds

\* C4: at every level of a tree returned by contents(), or by
\* union_array_contents() drawing its own children, no immediate child of a
\* UnionArray is a UnionArray.
C4_NoUnionInUnion ==
    (Returned("contents") \/ Returned("union_array_contents")) =>
        \A u \in Unions(ret) :
            \A i \in DOMAIN u.contents : u.contents[i].kind # "UnionArray"

\* A union below the root of a tree of contents(), its variants drawn.
C4_Witness ==
    /\ Returned("contents")
    /\ ret.kind # "UnionArray"
    /\ \E u \in Unions(ret) : Len(u.contents) >= 2

(***************************************************************************)
(* Properties of union_array_contents given its variants.                  *)
(***************************************************************************)
\* The index values at the positions that carry tag v.
IndexOfTag(u, v) == {i \in DOMAIN u.tags : u.tags[i] = v}

\* C5: len(tags) == len(index) == the summed length of the variants, and for
\* each variant v the index values where tags == v are exactly
\* 0 .. len(variant v) - 1, each once.
C5_UnionCompact ==
    (Returned("union_array_contents") /\ ret.kind = "UnionArray") =>
        /\ Len(ret.tags) = Len(ret.index)
        /\ Len(ret.tags) = SumLen(ret.contents)
        /\ \A v \in DOMAIN ret.contents :
             /\ {ret.index[i] : i \in IndexOfTag(ret, v - 1)}
                    = 0..(ContentLen(ret.contents[v]) - 1)
             /\ Cardinality(IndexOfTag(ret, v - 1)) = ContentLen(ret.contents[v])

\* C6: every entry of the int8 tags array of a UnionArray is >= 0 and below
\* the number of variants, however many variants there are.
C6_TagsInRange ==
    (Returned("union_array_contents") \/ Returned("contents")) =>
        \A u \in Unions(ret) :
            \A i \in DOMAIN u.tags : 0 <= u.tags[i] /\ u.tags[i] < Len(u.contents)

(***************************************************************************)
(* Properties of the single-child builders and of record_array_contents.   *)
(***************************************************************************)
\* C7: the RegularArray has size <= max_size, and either size == 0 and
\* length <= max_zeros_length, or size > 0 dividing the child's length L
\* with length == L // size.
C7_RegularValid ==
    Returned("regular_array_contents") =>
        LET L == ContentLen(ret.content)
        IN  /\ ret.size <= opts.max_size
            /\ \/ ret.size = 0 /\ ContentLen(ret) <= opts.max_zeros_length
               \/ /\ ret.size > 0
                  /\ L % ret.size = 0
                  /\ ContentLen(ret) = L \div ret.size

\* A size above one that splits a non-empty child into several elements.
C7_Witness ==
    /\ Returned("regular_array_contents")
    /\ ret.size > 1
    /\ ContentLen(ret) > 1

\* C8: the ListOffsetArray has offsets[0] == 0, non-decreasing offsets,
\* offsets[-1] <= len(child) and a list length in [0, 5].
C8_OffsetsValid ==
    Returned("list_offset_array_contents") =>
        LET offsets == ret.offsets
        IN  /\ offsets[1] = 0
            /\ \A i \in 1..(Len(offsets) - 1) : offsets[i] <= offsets[i + 1]
            /\ offsets[Len(offsets)] <= ContentLen(ret.content)
            /\ Len(offsets) - 1 \in 0..5

\* Five lists cut at split points that are not all equal.
C8_Witness ==
    /\ Returned("list_offset_array_contents")
    /\ ContentLen(ret) = 5
    /\ ret.offsets[2] < ret.offsets[5]

\* C9: the ListArray has len(starts) == len(stops) <= 5 and, for every i,
\* 0 <= starts[i] <= stops[i] <= len(child).
C9_StartsStopsValid ==
    Returned("list_array_contents") =>
        /\ Len(ret.starts) = Len(ret.stops)
        /\ Len(ret.starts) <= 5
        /\ \A i \in DOMAIN ret.starts :
             /\ 0 <= ret.starts[i]
             /\ ret.starts[i] <= ret.stops[i]
             /\ ret.stops[i] <= ContentLen(ret.content)

\* Five lists, one of them not empty.
C9_Witness ==
    /\ Returned("list_array_contents")
    /\ Len(ret.starts) = 5
    /\ \E i \in DOMAIN ret.starts : ret.starts[i] < ret.stops[i]

\* C10: a named record (any record when allow_tuple is false) has pairwise
\* distinct field names, as many as children; the record length is 0 with no
\* children, the shortest child's length when no max_length is given, and
\* never above the shortest child's length or max_length.
C10_RecordValid ==
    Returned("record_array_contents") =>
        LET contents == ret.contents
            lens == {ContentLen(contents[i]) : i \in DOMAIN contents}
        IN  /\ ~opts.allow_tuple => ~ret.is_tuple
            /\ ~ret.is_tuple =>
                 /\ Len(ret.fields) = Len(contents)
                 /\ \A i, j \in DOMAIN ret.fields :
                      ret.fields[i] = ret.fields[j] => i = j
            /\ contents = <<>> => ret.length = 0
            /\ (contents # <<>> /\ opts.max_length = NoInt) =>
                 /\ ret.length \in lens
                 /\ \A l \in lens : ret.length <= l
            /\ \A l \in lens : ret.length <= l
            /\ opts.max_length # NoInt => ret.length <= opts.max_length[1]

\* A named record of two fields cut by max_length below its shortest child.
C10_Witness ==
    /\ Returned("record_array_contents")
    /\ ~ret.is_tuple
    /\ Len(ret.contents) = 2
    /\ opts.max_length # NoInt
    /\ \A i \in DOMAIN ret.contents : ret.length < ContentLen(ret.contents[i])

(***************************************************************************)
(* contents() with no leaf kind enabled.                                   *)
(***************************************************************************)
\* The call of contents() has ended with the error of leaf_contents.
RaisedValueError == pc = "done" /\ opts.fn = "contents" /\ ret = Raised("ValueError")

\* C11: with all four leaf kinds disabled a call of contents() never returns
\* a tree: whatever the wrapper flags, max_size, max_depth and the sampler's
\* choices, it is never left without a next step before it has ended, and
\* it ends with the ValueError of leaf_contents.
C11_NoLeafKindFails ==
    (opts.fn = "contents" /\ ~LeafAllowed(opts.kw)) =>
        /\ pc = "done" => ret = Raised("ValueError")
        /\ pc = "call" => ENABLED Next

\* The error has come up with wrappers enabled and budget and depth to
\* build them.
C11_Witness ==
    /\ RaisedValueError
    /\ ~LeafOnly(opts.kw)
    /\ opts.kw.max_depth >= 2
    /\ Candidates(opts.kw) # {}

\* The calls of st_leaf that come before every draw: line 130 of the
\* outermost call, and line 133 of it when max_depth <= 0 spares the coin.
LeafBeforeAnyDraw ==
    /\ Len(stack) = 1
    /\ AtStart
    /\ LeafOnly(Top.kw) \/ Top.kw.max_depth <= 0

\* C12: with all leaf kinds disabled, the step of contents() that raises the
\* ValueError is taken before a coin flip, a choice of wrapper kind or a
\* draw of a child has been consumed.
C12_RaisedBeforeAnyDraw ==
    [][(opts.fn = "contents" /\ ret' = Raised("ValueError")) => LeafBeforeAnyDraw]_vars

(***************************************************************************)
(* CountdownDrawer (util/draw.py).  opts holds its arguments; the one       *)
(* frame of stack is the closure of _draw_content, to which the model adds *)
(* what a caller sees: results, the lengths of the results that were not   *)
(* None, max_sizes, the max_size each child draw was asked for, and nones, *)
(* the number of calls that returned None.  ret is the value of the last   *)
(* call.                                                                   *)
(***************************************************************************)
\* safe_min((max_size_each, remaining)): the smallest of those not None.
SafeMin(max_size_each, remaining) ==
    IF max_size_each = NoInt THEN remaining ELSE Min(max_size_each[1], remaining)

\* A result of st_ of the given length.
Sized(n) == [kind |-> "Sized", length |-> n]

\* draw(st_(min_size=min_size, max_size=max_size)): a result whose length is
\* within the sizes asked for; sizes no result can meet are refused.
DrawSt(min_size, max_size) ==
    IF min_size <= max_size
    THEN {Sized(n) : n \in min_size..max_size}
    ELSE {Raised("InvalidArgument")}

\* Faulty variant: the draw limit is never reached.
DrawsNeverExhausted(n_draws, max_draws) == FALSE

\* if n_draws >= max_draws: return None
DrawsExhausted(n_draws, max_draws) == n_draws >= max_draws

\* Faulty variant: a budget that is used up still lets a draw of size 0 in.
BudgetBelowMin(remaining, min_size_each) == remaining < min_size_each

\* if remaining <= 0 or remaining < min_size_each: return None
BudgetExhausted(remaining, min_size_each) ==
    remaining <= 0 \/ remaining < min_size_each

\* Faulty variant: the length of the result is not added to the total.
SizeTotalStale(size_total, result) == size_total

\* size_total += len(result)
SizeTotal(size_total, result) == size_total + result.length

Closure == stack[1]

InDrawer == pc = "drawer" /\ Len(stack) = 1

\* The results a caller may still collect, one more than any max_draws of
\* the model lets through.
MaxResults == MaxDraws + 1

InitCountdown ==
    /\ opts \in [fn : {"CountdownDrawer"},
                 min_size_each : 0..MaxSizeEach,
                 max_size_each : {NoInt} \cup {Some(n) : n \in 0..MaxSizeEach},
                 max_size_total : 0..MaxBudget,
                 max_draws : 0..MaxDraws]
    /\ pc = "call"
    /\ stack = <<>>
    /\ ret = None

\* max_size_total = draw(st.integers(min_value=0, max_value=max_size_total));
\* size_total = 0; n_draws = 0; return _draw_content
CountdownCreate ==
    /\ pc = "call"
    /\ opts.fn = "CountdownDrawer"
    /\ \E max_size_total \in 0..opts.max_size_total :
         stack' = <<[fn |-> "_draw_content", max_size_total |-> max_size_total,
                     size_total |-> 0, n_draws |-> 0,
                     results |-> <<>>, max_sizes |-> <<>>, nones |-> 0]>>
    /\ pc' = "drawer"
    /\ UNCHANGED <<opts, ret>>

\* _draw_content() returns None.
DrawContentNone ==
    /\ InDrawer
    /\ Closure.nones < MaxNones
    /\ LET remaining == Closure.max_size_total - Closure.size_total
       IN  \/ DrawsExhausted(Closure.n_draws, opts.max_draws)
           \/ BudgetExhausted(remaining, opts.min_size_each)
    /\ stack' = <<[Closure EXCEPT !.nones = @ + 1]>>
    /\ ret' = None
    /\ UNCHANGED <<opts, pc>>

\* _draw_content() draws from st_ and returns the result.
DrawContentResult ==
    /\ InDrawer
    /\ Len(Closure.results) < MaxResults
    /\ LET remaining == Closure.max_size_total - Closure.size_total
           max_size == SafeMin(opts.max_size_each, remaining)
       IN  /\ ~DrawsExhausted(Closure.n_draws, opts.max_draws)
           /\ ~BudgetExhausted(remaining, opts.min_size_each)
           /\ \E result \in DrawSt(opts.min_size_each, max_size) :
                IF result.kind = "Error"
                THEN /\ stack' = <<>>
                     /\ ret' = result
                     /\ pc' = "done"
                ELSE /\ stack' = <<[Closure EXCEPT
                            !.size_total = SizeTotal(Closure.size_total, result),
                            !.n_draws = @ + 1,
                            !.results = Append(@, result.length),
                            !.max_sizes = Append(@, max_size)]>>
                     /\ ret' = result
                     /\ pc' = pc
    /\ UNCHANGED opts

NextCountdown == CountdownCreate \/ DrawContentNone \/ DrawContentResult

SpecCountdown == InitCountdown /\ [][NextCountdown]_vars

\* The caller of _exhaust: it goes on calling the draw function.
SpecExhaust == SpecCountdown /\ WF_vars(NextCountdown)

\* The sum of the first n entries of a sequence of integers.
RECURSIVE SumFirst(_, _)
SumFirst(s, n) == IF n = 0 THEN 0 ELSE SumFirst(s, n - 1) + s[n]

\* C13: the lengths of the results that were not None sum to at most the
\* total budget given to CountdownDrawer, and every child draw was asked for
\* max_size = min(remaining budget, max_size_each).
C13_TotalWithinBudget ==
    InDrawer =>
        /\ SumFirst(Closure.results, Len(Closure.results)) <= opts.max_size_total
        /\ \A i \in DOMAIN Closure.max_sizes :
             LET remaining == Closure.max_size_total - SumFirst(Closure.results, i - 1)
             IN  Closure.max_sizes[i] =
                    IF opts.max_size_each = NoInt THEN remaining
                    ELSE Min(remaining, opts.max_size_each[1])

\* Two results that use up a budget of three, the second cut by what the
\* first left.
C13_Witness ==
    /\ InDrawer
    /\ opts.max_size_total = 3
    /\ Len(Closure.results) = 2
    /\ SumFirst(Closure.results, 2) = 3
    /\ opts.max_size_each # NoInt
    /\ Closure.max_sizes[2] < opts.max_size_each[1]

\* C14: once the draw function has returned None, every later call returns
\* None and draws no child; with a total budget of 0 the first call already
\* does.
C14_NoneIsFinal ==
    [][(InDrawer /\ (Closure.nones > 0 \/ opts.max_size_total = 0)) =>
          /\ pc' = "drawer"
          /\ ret' = None
          /\ Closure'.nones = Closure.nones + 1
          /\ Closure'.results = Closure.results
          /\ Closure'.n_draws = Closure.n_draws
          /\ Closure'.size_total = Closure.size_total]_vars

\* None returned twice after two results were drawn.
C14_Witness ==
    /\ InDrawer
    /\ Closure.nones = 2
    /\ Len(Closure.results) = 2

\* C15: a caller that goes on calling the draw function gets None (or the
\* error of the child strategy) in the end, after at most max_draws results
\* that are not None, also when every result has length 0.
C15_ExhaustTerminates ==
    /\ [](InDrawer => Len(Closure.results) <= opts.max_draws)
    /\ <>(pc = "done" \/ (InDrawer /\ Closure.nones > 0))

\* None after max_draws results of length 0 each, the budget untouched.
C15_Witness ==
    /\ InDrawer
    /\ Closure.nones > 0
    /\ opts.min_size_each = 0
    /\ opts.max_draws >= 2
    /\ Len(Closure.results) = opts.max_draws
    /\ Closure.size_total = 0
    /\ Closure.max_size_total > 0

(***************************************************************************)
(* The loop of _st_content_lists.                                          *)
(***************************************************************************)
\* C16: the loop that draws the children of a record or a union is bounded
\* by a draw count: once that many children are drawn the loop is over
\* whatever the coin shows, also when every child has weight 0.  The count
\* is taken to be MaxChildren; the code has no such count, and the same
\* run refutes any other.
C16_LoopBoundedByDrawCount ==
    (InList /\ ret = None /\ Len(Top.contents_) >= MaxChildren) =>
        ~Continue(TRUE, Top.remaining)

(***************************************************************************)
(* RecordDraws and OptsChain (strategies/misc/record.py).  In this part    *)
(* stack is the heap: the objects created so far, oldest first, each named *)
(* by its position.  An OptsChain holds a reference to its list of         *)
(* recorders, a list holds references to RecordDraws objects.  parent (the *)
(* chain extend() was called on), owner (the chain register() was called   *)
(* on) and total (the values recorded so far) are kept for the properties. *)
(* ret is the call made last.                                              *)
(***************************************************************************)
Keys == {"a"}
Values == 1..MaxValue

\* The dicts over Keys.
Dicts == UNION {[D -> Values] : D \in SUBSET Keys}

\* {**kwargs, **extra}
Merged(kwargs, extra) ==
    [k \in DOMAIN kwargs \cup DOMAIN extra |->
        IF k \in DOMAIN extra THEN extra[k] ELSE kwargs[k]]

ListObject(items) == [fn |-> "list", items |-> items]

\* OptsChain.__init__
OptsChainObject(kwargs, recorders, parent) ==
    [fn |-> "OptsChain", kwargs |-> kwargs, recorders |-> recorders,
     parent |-> parent]

\* RecordDraws.__init__
RecordDrawsObject(base, owner) ==
    [fn |-> "RecordDraws", base |-> base, drawn |-> <<>>, total |-> 0,
     owner |-> owner]

ChainRefs == {i \in DOMAIN stack : stack[i].fn = "OptsChain"}
RecorderRefs == {i \in DOMAIN stack : stack[i].fn = "RecordDraws"}

\* chain.recorders, as the set of the recorders in the list
RecordersOf(heap, c) ==
    {heap[heap[c].recorders].items[i] :
        i \in DOMAIN heap[heap[c].recorders].items}

\* The recorders one draw from r records in: r, and the recorder r wraps,
\* if it wraps one, and so on.
RECURSIVE BaseChain(_, _)
BaseChain(heap, r) ==
    IF r = 0 THEN {} ELSE {r} \cup BaseChain(heap, heap[r].base)

\* The call made last.
Op(op, chain, recorder, value) ==
    [kind |-> "Op", op |-> op, chain |-> chain, recorder |-> recorder,
     value |-> value]

InitOptsChain ==
    /\ opts = [fn |-> "OptsChain"]
    /\ pc = "call"
    /\ stack = <<ListObject(<<>>), OptsChainObject(<<>>, 1, 0)>>
    /\ ret = None

InOptsChain == pc = "call" /\ opts.fn = "OptsChain"

\* Faulty variant: the new recorder is also put in the list of the chain
\* that c was extended from.
RegisterOnParentToo ==
    /\ pc = "call" /\ opts.fn = "OptsChain"
    /\ Cardinality({i \in DOMAIN stack : stack[i].fn = "RecordDraws"}) < MaxRecorders
    /\ \E c \in {i \in DOMAIN stack : stack[i].fn = "OptsChain"},
          base \in {0} \cup {i \in DOMAIN stack : stack[i].fn = "RecordDraws"} :
         LET recorder == Len(stack) + 1
             lists == {stack[c].recorders} \cup
                        IF stack[c].parent = 0 THEN {}
                        ELSE {stack[stack[c].parent].recorders}
         IN  /\ stack' = [i \in 1..recorder |->
                            IF i = recorder THEN RecordDrawsObject(base, c)
                            ELSE IF i \in lists
                            THEN [stack[i] EXCEPT !.items = Append(@, recorder)]
                            ELSE stack[i]]
             /\ ret' = Op("register", c, recorder, 0)
    /\ UNCHANGED <<opts, pc>>

\* chain.register(strategy); strategy is a plain strategy (base = 0) or a
\* recorder made before.
Register ==
    /\ InOptsChain
    /\ Cardinality(RecorderRefs) < MaxRecorders
    /\ \E c \in ChainRefs, base \in {0} \cup RecorderRefs :
         LET recorder == Len(stack) + 1
         IN  /\ stack' = [Append(stack, RecordDrawsObject(base, c))
                            EXCEPT ![stack[c].recorders].items = Append(@, recorder)]
             /\ ret' = Op("register", c, recorder, 0)
    /\ UNCHANGED <<opts, pc>>

\* Faulty variant: the new chain is given the list of its parent itself.
RecordersShared(heap, recorders) == <<heap, recorders>>

\* _recorders=list(self._recorders): the heap with the copy, and the copy.
RecordersCopied(heap, recorders) ==
    <<Append(heap, ListObject(heap[recorders].items)), Len(heap) + 1>>

\* chain.extend(extra)
Extend ==
    /\ InOptsChain
    /\ Cardinality(ChainRefs) < MaxChains
    /\ \E c \in ChainRefs, extra \in Dicts :
         LET copied == RecordersCopied(stack, stack[c].recorders)
         IN  /\ stack' = Append(copied[1],
                    OptsChainObject(Merged(stack[c].kwargs, extra), copied[2], c))
             /\ ret' = Op("extend", c, 0, 0)
    /\ UNCHANGED <<opts, pc>>

\* Faulty variant: the loop of reset() is left after the first recorder.
ResetFirstOnly(items) == IF items = <<>> THEN {} ELSE {items[1]}

\* for r in self._recorders: the recorders the loop of reset() clears
ResetAll(items) == {items[i] : i \in DOMAIN items}

\* chain.reset()
Reset ==
    /\ InOptsChain
    /\ \E c \in ChainRefs :
         /\ stack' = [i \in DOMAIN stack |->
                IF i \in ResetAll(stack[stack[c].recorders].items)
                THEN [stack[i] EXCEPT !.drawn = <<>>]
                ELSE stack[i]]
         /\ ret' = Op("reset", c, 0, 0)
    /\ UNCHANGED <<opts, pc>>

\* recorder.do_draw(data): value = data.draw(self._base);
\* self.drawn.append(value)
DoDraw ==
    /\ InOptsChain
    /\ \E r \in RecorderRefs, value \in Values :
         /\ \A b \in BaseChain(stack, r) : stack[b].total < MaxRecorded
         /\ stack' = [i \in DOMAIN stack |->
                IF i \in BaseChain(stack, r)
                THEN [stack[i] EXCEPT !.drawn = Append(@, value), !.total = @ + 1]
                ELSE stack[i]]
         /\ ret' = Op("draw", 0, r, value)
    /\ UNCHANGED <<opts, pc>>

NextOptsChain == Register \/ Extend \/ Reset \/ DoDraw

SpecOptsChain == InitOptsChain /\ [][NextOptsChain]_vars

\* The call made last is op.
LastOp(r, op) == r.kind = "Op" /\ r.op = op

\* C19: after chain.reset() every recorder in chain.recorders has an empty
\* drawn list, and one draw from such a recorder right after the reset
\* leaves its drawn list equal to [value], however the chain was built by
\* register() and extend() and however many values the recorder had
\* recorded before.
C19_ResetThenDraw ==
    [][/\ LastOp(ret', "reset") =>
            \A r \in RecordersOf(stack', ret'.chain) : stack'[r].drawn = <<>>
       /\ (LastOp(ret, "reset") /\ LastOp(ret', "draw")
              /\ ret'.recorder \in RecordersOf(stack, ret.chain)) =>
            stack'[ret'.recorder].drawn = <<ret'.value>>]_vars

\* A recorder of a chain made by extend() holds exactly the value drawn
\* last although it has recorded more: the values before were cleared by a
\* reset, and the chain has two recorders.
C19_Witness ==
    /\ LastOp(ret, "draw")
    /\ stack[ret.recorder].drawn = <<ret.value>>
    /\ stack[ret.recorder].total >= 2
    /\ stack[stack[ret.recorder].owner].parent # 0
    /\ Cardinality(RecordersOf(stack, stack[ret.recorder].owner)) >= 2

\* The chains c was derived from, by one extend() or more.
RECURSIVE Ancestors(_, _)
Ancestors(heap, c) ==
    IF heap[c].parent = 0 THEN {}
    ELSE {heap[c].parent} \cup Ancestors(heap, heap[c].parent)

\* The recorders registered on c.
Own(heap, c) ==
    {r \in DOMAIN heap : heap[r].fn = "RecordDraws" /\ heap[r].owner = c}

\* The recorders registered on c, and those its parent had when c was made:
\* the objects made before c are the ones with a smaller position.
RECURSIVE RegisteredBefore(_, _)
RegisteredBefore(heap, c) ==
    Own(heap, c) \cup
        IF heap[c].parent = 0 THEN {}
        ELSE {r \in RegisteredBefore(heap, heap[c].parent) : r < c}

\* C20: reset() on a derived chain clears every recorder its parent had
\* registered before the extend() and every recorder of its own; reset()
\* on a chain leaves unchanged the drawn list of every recorder that was
\* registered only on chains derived from it.
C20_ResetScope ==
    [][LastOp(ret', "reset") =>
          /\ \A r \in RegisteredBefore(stack, ret'.chain) :
                stack'[r].drawn = <<>>
          /\ \A r \in RecorderRefs :
                ret'.chain \in Ancestors(stack, stack[r].owner) =>
                    stack'[r].drawn = stack[r].drawn]_vars

\* reset() was called on a parent: its own recorder, registered before the
\* extend(), is empty after having recorded, and the recorder of the derived
\* chain keeps its value; that recorder was cleared before, by a reset() of
\* the derived chain.
C20_Witness ==
    /\ LastOp(ret, "reset")
    /\ \E d \in ChainRefs, r1, r2 \in RecorderRefs :
         /\ stack[d].parent = ret.chain
         /\ stack[r1].owner = ret.chain /\ r1 < d
         /\ stack[r1].total > 0 /\ stack[r1].drawn = <<>>
         /\ stack[r2].owner = d
         /\ stack[r2].total = 2 /\ Len(stack[r2].drawn) = 1

(***************************************************************************)
(* arrays() and the virtualization of a finished tree.  The tree is        *)
(* serialized into its form, its length and a container of buffers; a      *)
(* subset of the buffer keys is made lazy; the layout of the array is      *)
(* rebuilt from the three.  A buffer is named by the path of its node from *)
(* the root and its role in the node.  The data of a leaf is modelled by   *)
(* its number of items.                                                    *)
(***************************************************************************)

\* The form of a layout: its structure without buffers and lengths.
RECURSIVE Form(_)
Form(c) ==
    CASE c.kind \in LeafKinds -> [class |-> c.kind]
      [] c.kind = "RegularArray" ->
            [class |-> c.kind, size |-> c.size, content |-> Form(c.content)]
      [] c.kind \in {"ListOffsetArray", "ListArray"} ->
            [class |-> c.kind, content |-> Form(c.content)]
      [] c.kind = "RecordArray" ->
            [class |-> c.kind, is_tuple |-> c.is_tuple, fields |-> c.fields,
             contents |-> [i \in DOMAIN c.contents |-> Form(c.contents[i])]]
      [] c.kind = "UnionArray" ->
            [class |-> c.kind,
             contents |-> [i \in DOMAIN c.contents |-> Form(c.contents[i])]]

\* The buffers a node of a class has.
BufferNames(class) ==
    CASE class \in {"NumpyArray", "string", "bytestring"} -> {"data"}
      [] class = "ListOffsetArray" -> {"offsets"}
      [] class = "ListArray" -> {"starts", "stops"}
      [] class = "UnionArray" -> {"tags", "index"}
      [] OTHER -> {}

\* The buffers of one node: (key, data) pairs.
NodeBuffers(c, path) ==
    CASE c.kind \in {"NumpyArray", "string", "bytestring"} ->
            {<<<<path, "data">>, c.length>>}
      [] c.kind = "ListOffsetArray" -> {<<<<path, "offsets">>, c.offsets>>}
      [] c.kind = "ListArray" ->
            {<<<<path, "starts">>, c.starts>>, <<<<path, "stops">>, c.stops>>}
      [] c.kind = "UnionArray" ->
            {<<<<path, "tags">>, c.tags>>, <<<<path, "index">>, c.index>>}
      [] OTHER -> {}

\* The container of a tree.
RECURSIVE Container(_, _)
Container(c, path) ==
    NodeBuffers(c, path) \cup
        CASE c.kind \in {"RegularArray", "ListOffsetArray", "ListArray"} ->
                Container(c.content, Append(path, 1))
          [] c.kind \in {"RecordArray", "UnionArray"} ->
                UNION {Container(c.contents[i], Append(path, i)) :
                            i \in DOMAIN c.contents}
          [] OTHER -> {}

BufferKeys(container) == {e[1] : e \in container}
Buffer(container, key) == (CHOOSE e \in container : e[1] = key)[2]

SerializedLength(root) == ContentLen(root)

\* The serialized projection of a tree.
ToBuffers(root) ==
    [form |-> Form(root), length |-> SerializedLength(root),
     container |-> Container(root, <<>>)]

\* The largest of a sequence of naturals, 0 for none.
MaxOf(s) ==
    IF s = <<>> THEN 0
    ELSE CHOOSE m \in {s[i] : i \in DOMAIN s} : \A i \in DOMAIN s : m >= s[i]

\* The items of union child k that the first length items of tags and index
\* refer to.
VariantLen(tags, index, k) ==
    LET used == {index[j] + 1 : j \in {j \in DOMAIN tags : tags[j] = k - 1}}
    IN  IF used = {} THEN 0 ELSE CHOOSE m \in used : \A u \in used : m >= u

\* The layout rebuilt from a form, a length and a container; lazy holds the
\* keys whose buffer is an accessor, and each node keeps which of its
\* buffers are.
RECURSIVE FromBuffers(_, _, _, _, _)
FromBuffers(form, length, container, lazy, path) ==
    LET mine == {n \in BufferNames(form.class) : <<path, n>> \in lazy}
        buf(n) == SubSeq(Buffer(container, <<path, n>>), 1,
                         IF n = "offsets" THEN length + 1 ELSE length)
        child(f, i, len) == FromBuffers(f, len, container, lazy, Append(path, i))
    IN  CASE form.class \in LeafKinds ->
                [kind |-> form.class, length |-> length, lazy |-> mine]
          [] form.class = "RegularArray" ->
                [kind |-> form.class, size |-> form.size, length |-> length,
                 content |-> child(form.content, 1, length * form.size),
                 lazy |-> mine]
          [] form.class = "ListOffsetArray" ->
                [kind |-> form.class, offsets |-> buf("offsets"),
                 content |-> child(form.content, 1,
                                   buf("offsets")[Len(buf("offsets"))]),
                 lazy |-> mine]
          [] form.class = "ListArray" ->
                [kind |-> form.class, starts |-> buf("starts"),
                 stops |-> buf("stops"),
                 content |-> child(form.content, 1, MaxOf(buf("stops"))),
                 lazy |-> mine]
          [] form.class = "RecordArray" ->
                [kind |-> form.class, is_tuple |-> form.is_tuple,
                 fields |-> form.fields, length |-> length,
                 contents |-> [i \in DOMAIN form.contents |->
                                 child(form.contents[i], i, length)],
                 lazy |-> mine]
          [] form.class = "UnionArray" ->
                [kind |-> form.class, tags |-> buf("tags"),
                 index |-> buf("index"),
                 contents |-> [i \in DOMAIN form.contents |->
                                 child(form.contents[i], i,
                                       VariantLen(buf("tags"), buf("index"), i))],
                 lazy |-> mine]

\* The buffers of a layout that are still accessors.
RECURSIVE LazyBuffers(_, _)
LazyBuffers(c, path) ==
    (IF "lazy" \in DOMAIN c THEN {<<path, n>> : n \in c.lazy} ELSE {}) \cup
        CASE c.kind \in {"RegularArray", "ListOffsetArray", "ListArray"} ->
                LazyBuffers(c.content, Append(path, 1))
          [] c.kind \in {"RecordArray", "UnionArray"} ->
                UNION {LazyBuffers(c.contents[i], Append(path, i)) :
                            i \in DOMAIN c.contents}
          [] OTHER -> {}

Array(layout) == [kind |-> "Array", layout |-> layout]

\* Faulty variant: the tree is virtualized whatever allow_virtual says.
ArraysAlwaysVirtual(root, allow_virtual, lazy) ==
    LET s == ToBuffers(root)
    IN  Array(FromBuffers(s.form, s.length, s.container, lazy, <<>>))

\* arrays(): the array made of the drawn tree.  Without allow_virtual, or
\* with no buffer made lazy, the layout is the tree itself.
Arrays(root, allow_virtual, lazy) ==
    IF ~allow_virtual \/ lazy = {} THEN Array(root)
    ELSE LET s == ToBuffers(root)
         IN  Array(FromBuffers(s.form, s.length, s.container, lazy, <<>>))

\* The finished trees handed to arrays().
LayoutLeaves ==
    {EmptyArray} \cup {NumpyArray(n) : n \in 0..MaxLayoutLen}
        \cup {StringContent(n) : n \in 0..MaxLayoutLen}

Wrapped(S) ==
    UNION {RegularArrayContents(c, MaxLayoutLen, 1)
             \cup ListOffsetArrayContents(c) \cup ListArrayContents(c) : c \in S}
      \cup UNION {RecordArrayContents(<<a, b>>, TRUE, NoInt)
                    \cup UnionArrayContents(<<a, b>>) :
                        a \in S \cap LayoutLeaves, b \in S \cap LayoutLeaves}

RECURSIVE Layouts(_)
Layouts(depth) ==
    IF depth = 0 THEN LayoutLeaves
    ELSE Layouts(depth - 1) \cup Wrapped(Layouts(depth - 1))

InitArrays ==
    /\ opts = [fn |-> "arrays", allow_virtual |-> TRUE]
    /\ pc = "call"
    /\ stack = <<>>
    /\ ret = None

\* arrays(allow_virtual=...) is called.
ArraysCall ==
    /\ pc = "call" /\ opts.fn = "arrays" /\ stack = <<>>
    /\ \E allow_virtual \in BOOLEAN, root \in Layouts(MaxLayoutDepth) :
         /\ opts' = [opts EXCEPT !.allow_virtual = allow_virtual]
         /\ stack' = <<[fn |-> "arrays", drawn_layout |-> root]>>
    /\ UNCHANGED <<pc, ret>>

\* The buffers to make lazy are drawn and the array is returned.
ArraysReturn ==
    /\ pc = "call" /\ opts.fn = "arrays" /\ stack # <<>>
    /\ \E lazy \in SUBSET BufferKeys(Container(stack[1].drawn_layout, <<>>)) :
         ret' = Arrays(stack[1].drawn_layout, opts.allow_virtual, lazy)
    /\ pc' = "done"
    /\ UNCHANGED <<opts, stack>>

NextArrays == ArraysCall \/ ArraysReturn

SpecArrays == InitArrays /\ [][NextArrays]_vars

C21_ChildFormsAccepted ==
    (opts.fn = "list_offset_array_contents" /\ pc = "done") =>
        /\ ret.kind = "ListOffsetArray"
        /\ ret.content = opts.content.value

(***************************************************************************)
(* contents() called deep enough for a union below a union.  To keep the   *)
(* runs small the union kind is enabled alone or together with one other   *)
(* wrapper kind, and with one leaf kind; enabling more kinds only adds     *)
(* candidates.                                                             *)
(***************************************************************************)
NestedKwargs ==
    {[n \in DOMAIN DefaultKwargs |->
        CASE n = "max_size" -> MaxNestedSize
          [] n = "max_depth" -> MaxNestedDepth
          [] OTHER -> n \in {leaf, wrapper, "allow_union", "allow_union_root"}] :
        leaf \in {"allow_numpy"},
        wrapper \in {"allow_list_offset", "allow_record", "allow_union"}}

InitNested ==
    /\ opts \in {[fn |-> "contents", kw |-> kw] : kw \in NestedKwargs}
    /\ pc = "call"
    /\ stack = <<Frame(opts.kw)>>
    /\ ret = None

NextNested ==
    \/ ContentsLeafOnly
    \/ ContentsStop
    \/ ContentsNoCandidates
    \/ ContentsDescend
    \/ ContentsWrap
    \/ ContentsDescendList
    \/ ListDrawMandatory
    \/ ListDrawOptional
    \/ ListAppend
    \/ ListBuild

SpecNested == InitNested /\ [][NextNested]_vars

\* The nodes below c.
Below(c) ==
    CASE c.kind \in LeafKinds -> {}
      [] c.kind \in {"RegularArray", "ListOffsetArray", "ListArray"} ->
            IterContents(c.content)
      [] c.kind \in {"RecordArray", "UnionArray"} ->
            UNION {IterContents(c.contents[i]) : i \in DOMAIN c.contents}

\* A union of c has a union below one of its variants.
UnionBelowVariant(c) ==
    \E u \in Unions(c) : \E i \in DOMAIN u.contents :
        \E d \in Below(u.contents[i]) : d.kind = "UnionArray"

\* C22: with the union kind enabled, a call of contents() made for the child of
\* a wrapper that is not a union, itself somewhere below a union, may still
\* choose the union kind as long as depth and size are left; so a tree with
\* a union below a variant of a union can be returned.
C22_UnionOpenBelowUnion ==
    (/\ opts.fn = "contents" /\ AtStart /\ Len(stack) >= 3
     /\ stack[Len(stack) - 1].node_type # "union"
     /\ \E i \in 1..(Len(stack) - 2) : stack[i].node_type = "union"
     /\ Top.kw.max_depth > 0 /\ ~LeafOnly(Top.kw)) =>
        "union" \in Candidates(Top.kw)

\* contents() has returned a tree with a union below a variant of a union.
C22_Witness == Returned("contents") /\ UnionBelowVariant(ret)

(***************************************************************************)
(* The recursive calls of contents().                                      *)
(***************************************************************************)
SingleChildTypes == {"regular", "list_offset", "list"}

\* C23: every recursive call of contents() gets a depth budget one less than
\* its caller's; a call with depth budget <= 0 makes none; a call that chose
\* a single-child kind hands its whole max_size to its child, and once that
\* child is back it returns without a second call.
C23_RecursiveCalls ==
    /\ [](opts.fn = "contents" =>
            \A i \in 2..Len(stack) :
                /\ stack[i].kw.max_depth = stack[i - 1].kw.max_depth - 1
                /\ stack[i - 1].kw.max_depth > 0
                /\ stack[i - 1].node_type \in SingleChildTypes =>
                      /\ stack[i - 1].pc = "child"
                      /\ stack[i].kw.max_size = stack[i - 1].kw.max_size)
    /\ [][(opts.fn = "contents" /\ stack # <<>> /\ Top.pc = "child") =>
            Len(stack') < Len(stack)]_vars

\* A single-child wrapper below a single-child wrapper is calling for its
\* child, with size left.
C23_Witness ==
    /\ opts.fn = "contents" /\ AtStart /\ Len(stack) = 3
    /\ stack[1].node_type \in SingleChildTypes
    /\ stack[2].node_type \in SingleChildTypes
    /\ Top.kw.max_size > 0

(***************************************************************************)
(* The children of records and unions.                                     *)
(***************************************************************************)
\* The frames of contents() that are in _st_content_lists with a child
\* being drawn: positions i with the child at i + 1.
DrawingLists ==
    {i \in 1..(Len(stack) - 1) : stack[i].fn = "contents" /\ stack[i].pc = "list"}

\* C24: every record of a tree contents() returns has at least one field
\* and every union at least two variants, also when the first children took
\* the whole budget; the children of a union are drawn with
\* allow_union_root=False, those of a record with allow_union_root=True.
C24_MandatoryChildren ==
    /\ Returned("contents") =>
          \A n \in IterContents(ret) :
              /\ n.kind = "RecordArray" => Len(n.contents) >= 1
              /\ n.kind = "UnionArray" => Len(n.contents) >= 2
    /\ opts.fn = "contents" =>
          \A i \in DrawingLists :
              stack[i + 1].kw.allow_union_root = (stack[i].node_type # "union")

\* A union of two variants is returned whose first variant took the whole
\* budget: the second one was drawn with max_size 0.
C24_Witness ==
    /\ Returned("contents") /\ ret.kind = "UnionArray"
    /\ opts.kw.max_size > 0
    /\ LeafSize(ret.contents[1]) = opts.kw.max_size
    /\ Len(ret.contents) = 2

\* C28: in _st_content_lists the budget left is never negative; each child
\* is drawn with max_size equal to what is left after the children before
\* it; a child beyond the mandatory ones is drawn only with a budget left
\* that is strictly positive.
C28_RemainingBudget ==
    opts.fn = "contents" =>
        /\ \A i \in 1..Len(stack) :
              (stack[i].fn = "contents" /\ stack[i].pc = "list") =>
                  /\ stack[i].remaining >= 0
                  /\ stack[i].remaining =
                        stack[i].kw.max_size - LeafSizeAll(stack[i].contents_)
        /\ \A i \in DrawingLists :
              /\ stack[i + 1].kw.max_size = stack[i].remaining
              /\ Len(stack[i].contents_) >= stack[i].min_size =>
                    stack[i].remaining > 0

\* A child beyond the mandatory ones is being drawn, after children that
\* took part of the budget.
C28_Witness ==
    /\ opts.fn = "contents" /\ AtStart /\ Len(stack) >= 2
    /\ stack[Len(stack) - 1].pc = "list"
    /\ Len(stack[Len(stack) - 1].contents_) >= stack[Len(stack) - 1].min_size
    /\ stack[Len(stack) - 1].remaining < stack[Len(stack) - 1].kw.max_size

(***************************************************************************)
(* The size regular_array_contents chooses.                                *)
(***************************************************************************)
\* The sizes that split a child of length L evenly and fit max_size.
FittingSizes(L, max_size) == {d \in 1..max_size : L % d = 0}

\* C25: for a child of length L > 0 the size is a divisor of L in
\* 1..max_size when there is one, and size = 0 with a length (the drawn
\* zeros_length) in 0..max_zeros_length exactly when there is none; for
\* L = 0 a size > 0 gives a RegularArray of length 0.
C25_SizeChoice ==
    Returned("regular_array_contents") =>
        LET L == ContentLen(ret.content)
            fitting == FittingSizes(L, opts.max_size)
        IN  /\ (L > 0 /\ fitting # {}) => ret.size \in fitting
            /\ (L > 0 /\ fitting = {}) =>
                  ret.size = 0 /\ ContentLen(ret) \in 0..opts.max_zeros_length
            /\ (L = 0 /\ ret.size > 0) => ContentLen(ret) = 0

\* No divisor of a non-empty child fits: size 0 and a positive length.
C25_Witness ==
    /\ Returned("regular_array_contents")
    /\ ContentLen(ret.content) > 0
    /\ FittingSizes(ContentLen(ret.content), opts.max_size) = {}
    /\ ret.size = 0 /\ ContentLen(ret) > 0

(***************************************************************************)
(* The offsets list_offset_array_contents computes.                        *)
(***************************************************************************)
\* The sublists of offsets that hold item j of the child (counted from 0).
SublistsHolding(offsets, j) ==
    {i \in 1..(Len(offsets) - 1) : offsets[i] <= j /\ j < offsets[i + 1]}

NumpyArrayContents(max_size) == {NumpyArray(n) : n \in 0..max_size}

\* Faulty variant: a draw is not taken off the count.
RemainingUntouched(remaining, result) == remaining

\* remaining -= len(result)
RemainingAfter(remaining, result) == remaining - ContentLen(result)

InitCounted ==
    /\ opts \in [fn : {"counted_numpy_array_contents"}, max_size : 0..MaxCount]
    /\ pc = "call"
    /\ stack = <<>>
    /\ ret = None

\* remaining = max_size; return _contents()
CountedCreate ==
    /\ pc = "call" /\ opts.fn = "counted_numpy_array_contents"
    /\ stack' = <<[fn |-> "_contents", remaining |-> opts.max_size,
                   results |-> <<>>, max_sizes |-> <<>>, raised |-> 0]>>
    /\ pc' = "strategy"
    /\ UNCHANGED <<opts, ret>>

InCounted == pc = "strategy" /\ opts.fn = "counted_numpy_array_contents"

\* if remaining == 0: raise NumpyArrayContentCountExhausted
CountedRaise ==
    /\ InCounted
    /\ stack[1].remaining = 0
    /\ stack[1].raised < MaxRaises
    /\ stack' = <<[stack[1] EXCEPT !.raised = @ + 1]>>
    /\ ret' = Raised("NumpyArrayContentCountExhausted")
    /\ UNCHANGED <<opts, pc>>

\* result = draw(numpy_array_contents(dtypes, allow_nan, remaining));
\* remaining -= len(result); return result
CountedDraw ==
    /\ InCounted
    /\ stack[1].remaining # 0
    /\ Len(stack[1].results) < MaxCountedDraws
    /\ \E result \in NumpyArrayContents(stack[1].remaining) :
         /\ stack' = <<[stack[1] EXCEPT
                          !.remaining = RemainingAfter(@, result),
                          !.results = Append(@, ContentLen(result)),
                          !.max_sizes = Append(@, stack[1].remaining)]>>
         /\ ret' = result
    /\ UNCHANGED <<opts, pc>>

NextCounted == CountedCreate \/ CountedRaise \/ CountedDraw

SpecCounted == InitCounted /\ [][NextCounted]_vars

\* C27: each draw from one counted strategy is made with the count still
\* left as its max_size, the lengths drawn never sum to more than max_size,
\* and with a count of 0 a draw raises NumpyArrayContentCountExhausted and
\* leaves the count at 0.
C27_CountDepletes ==
    /\ [](InCounted =>
            /\ SumFirst(stack[1].results, Len(stack[1].results)) <= opts.max_size
            /\ \A i \in DOMAIN stack[1].results :
                  /\ stack[1].max_sizes[i] =
                        opts.max_size - SumFirst(stack[1].results, i - 1)
                  /\ stack[1].results[i] <= stack[1].max_sizes[i]
            /\ ret.kind = "Error" => stack[1].remaining = 0)
    /\ [][(InCounted /\ stack[1].remaining = 0) =>
            /\ ret' = Raised("NumpyArrayContentCountExhausted")
            /\ stack'[1].remaining = 0
            /\ stack'[1].results = stack[1].results]_vars

\* Two arrays used the count up and two draws after them raised.
C27_Witness ==
    /\ InCounted
    /\ Len(stack[1].results) = 2 /\ stack[1].results[1] > 0
    /\ stack[1].results[2] = stack[1].max_sizes[2]
    /\ stack[1].raised = 2

\* C29: extend() takes a snapshot of the recorders.  A recorder registered
\* on the parent after the extend() is not among the child's recorders and
\* the child's reset() leaves its drawn list as it is; a recorder registered
\* on the child is not among the parent's recorders; extend() changes
\* neither the kwargs nor the recorders of the chain it is called on.
C29_ExtendSnapshot ==
    /\ [](InOptsChain =>
            \A c \in ChainRefs, r \in RecorderRefs :
                stack[c].parent # 0 =>
                    /\ (stack[r].owner = stack[c].parent /\ r > c) =>
                          r \notin RecordersOf(stack, c)
                    /\ stack[r].owner = c =>
                          r \notin RecordersOf(stack, stack[c].parent))
    /\ [][/\ LastOp(ret', "reset") =>
               \A r \in RecorderRefs :
                   (/\ stack[ret'.chain].parent # 0
                    /\ stack[r].owner = stack[ret'.chain].parent
                    /\ r > ret'.chain) =>
                       stack'[r].drawn = stack[r].drawn
          /\ (LastOp(ret', "extend") /\ Len(stack') > Len(stack)) =>
               /\ stack'[ret'.chain].kwargs = stack[ret'.chain].kwargs
               /\ stack'[stack'[ret'.chain].recorders].items =
                     stack[stack[ret'.chain].recorders].items]_vars

\* The child was reset: its own recorder is empty after having recorded,
\* and the recorder the parent registered after the extend() keeps what it
\* recorded; the child's kwargs differ from the parent's.
C29_Witness ==
    /\ LastOp(ret, "reset")
    /\ stack[ret.chain].parent # 0
    /\ stack[ret.chain].kwargs # stack[stack[ret.chain].parent].kwargs
    /\ \E r1, r2 \in RecorderRefs :
         /\ stack[r1].owner = stack[ret.chain].parent /\ r1 > ret.chain
         /\ stack[r1].drawn # <<>>
         /\ stack[r2].owner = ret.chain
         /\ stack[r2].total > 0 /\ stack[r2].drawn = <<>>

(***************************************************************************)
(* contents() with the union as the only wrapper kind.                     *)
(***************************************************************************)
UnionOnly(kw) ==
    /\ kw.allow_union
    /\ ~(kw.allow_regular \/ kw.allow_list_offset \/ kw.allow_list
           \/ kw.allow_record)

\* C30: with the union as the only wrapper kind enabled, a tree contents()
\* returns is a leaf or a union of leaves, whatever max_depth is: there is
\* no union below a union.
C30_UnionOnlyIsFlat ==
    (Returned("contents") /\ UnionOnly(opts.kw)) =>
        /\ NestingDepth(ret) <= 1
        /\ ret.kind \in LeafKinds \cup {"UnionArray"}
        /\ ret.kind = "UnionArray" =>
              \A i \in DOMAIN ret.contents : ret.contents[i].kind \in LeafKinds
        /\ ~UnionBelowVariant(ret)

\* A union is returned although max_depth would let a tree go deeper.
C30_Witness ==
    /\ Returned("contents") /\ UnionOnly(opts.kw)
    /\ opts.kw.max_depth >= 2
    /\ ret.kind = "UnionArray"

====
